---- MODULE Spec2Model ----
(***************************************************************************)
(* State-machine model of the PubMed author fetcher:                       *)
(*   - fetchWithRetry        (utils/apiUtils, part_000 lines 219-243)      *)
(*   - PubMedService.searchArticles, fetchArticleDetails,                  *)
(*     normalizeTitle, validateTitle, validateArticleData,                 *)
(*     extractAuthorInfo, formatAuthorName, addAffiliations                *)
(*                           (services/pubmedService, part_000 1-214)      *)
(* Every `await` of the source is a step boundary of the model.            *)
(***************************************************************************)
EXTENDS Naturals, Integers, Sequences, FiniteSets, TLC

(***************************************************************************)
(* Bounds of the model.                                                    *)
(***************************************************************************)
MaxRetries == 4      \* direct calls use retries in 0..MaxRetries
MaxDelayMs == 2      \* DELAY_MS / delayMs in 1..MaxDelayMs
MaxRetmax == 2       \* DEFAULT_RETMAX in 1..MaxRetmax
MaxMaxResults == 5   \* MAX_RESULTS in 1..MaxMaxResults
MaxBatch == 2        \* BATCH_SIZE in 1..MaxBatch
MaxIds == 3          \* fetchArticleDetails gets at most MaxIds identifiers
MaxArticles == 2     \* extractAuthorInfo gets at most MaxArticles records
MaxTitleLen == 2     \* title texts have at most MaxTitleLen characters

(***************************************************************************)
(* Program constants.                                                      *)
(***************************************************************************)
DefaultRetries == 3  \* fetchWithRetry(url, retries = 3, ...)

VARIABLES
    mode,            \* which exported function the run is a call of
    DELAY_MS, MAX_RESULTS, DEFAULT_RETMAX, BATCH_SIZE, KEYWORDS, \* ../config
    \* ---- fetchWithRetry ----
    rpc,             \* position inside fetchWithRetry
    attempt,         \* let attempt
    retries,         \* parameter retries
    delayMs,         \* parameter delayMs
    outstanding,     \* number of axios.get promises not yet settled
    gets,            \* number of axios.get issued by the current call
    response,        \* what the current call resolved with
    thrown,          \* index (1-based) of the GET whose error was rethrown
    \* ---- searchArticles / fetchArticleDetails ----
    pc,              \* position inside the service method
    retStart, allIds,
    ids, batches, i, allArticles,
    outcome,         \* "running" | "returned" | "RequestError" | "NoResultsError"
    result,          \* value the method returned
    \* ---- observation of the run ----
    trace,           \* events in order: call/get/ok/fail/retryDelay/pageDelay/batchDelay
    waited,          \* total milliseconds slept in delay()
    offsets,         \* retstart of every page request, in order
    chunks,          \* batchIds of every detail request, in order
    received,        \* the decoded payload of every resolved GET, in order
    \* ---- extractAuthorInfo ----
    articles, index, authorMap, processedCount, skippedCount

retryVars == <<rpc, attempt, retries, delayMs, outstanding, gets, response, thrown>>
cfgVars == <<mode, DELAY_MS, MAX_RESULTS, DEFAULT_RETMAX, BATCH_SIZE, KEYWORDS>>
searchVars == <<retStart, allIds, offsets>>
fetchVars == <<ids, batches, i, allArticles, chunks>>
extractVars == <<articles, index, authorMap, processedCount, skippedCount>>
vars == <<cfgVars, retryVars, pc, searchVars, fetchVars, outcome, result,
          trace, waited, received, extractVars>>

(***************************************************************************)
(* Helpers on sequences.                                                   *)
(***************************************************************************)
SeqsUpTo(S, n) == UNION {[1..k -> S] : k \in 0..n}

Count(s, e) == Cardinality({k \in 1..Len(s) : s[k] = e})

Min(a, b) == IF a < b THEN a ELSE b

\* a field that xml2js (explicitArray: false) decodes as absent, one value or an array
Absent == [kind |-> "absent"]
One(v) == [kind |-> "one", val |-> v]
Many(s) == [kind |-> "many", items |-> s]

\* Array.isArray(x) ? x : [x]
AsArray(x) == IF x.kind = "many" THEN x.items ELSE <<x.val>>

\* the value of `response` while no response has been received
NoResponse == [kind |-> "none"]

(***************************************************************************)
(* What the server may answer to a successful GET.                         *)
(*   direct call : an opaque body                                          *)
(*   esearch     : eSearchResult.IdList.Id absent, one id, or an array of  *)
(*                 2..DEFAULT_RETMAX ids                                   *)
(*   efetch      : PubmedArticleSet.PubmedArticle, filled in further down  *)
(***************************************************************************)
\* two identifiers are enough to tell order and repetition apart
Ids == {1, 2}

SearchPayloads ==
    {Absent} \cup {One(v) : v \in Ids}
             \cup {Many(s) : s \in UNION {[1..k -> Ids] : k \in 2..DEFAULT_RETMAX}}

DirectPayloads == {[kind |-> "body"]}

(***************************************************************************)
(* fetchWithRetry(url, retries = 3, delayMs = DELAY_MS)                    *)
(***************************************************************************)
\* a client whose attempt counter outlives the call
EnterFetchWithRetry_shared(r, d) ==
    /\ rpc' = "loop"
    /\ retries' = r
    /\ delayMs' = d
    /\ gets' = 0
    /\ response' = NoResponse
    /\ thrown' = 0
    /\ UNCHANGED <<attempt, outstanding>>

\* entry of the function: `let attempt = 0`
EnterFetchWithRetry(r, d) ==
    /\ rpc' = "loop"
    /\ attempt' = 0
    /\ retries' = r
    /\ delayMs' = d
    /\ gets' = 0
    /\ response' = NoResponse
    /\ thrown' = 0
    /\ UNCHANGED outstanding

\* while (attempt < retries) { try { if (attempt > 0) ... ; falls off the loop otherwise
RetryLoop ==
    /\ rpc = "loop"
    /\ IF attempt < retries
         THEN rpc' = IF attempt > 0 THEN "preDelay" ELSE "get"
         ELSE rpc' = "fellOff"
    /\ UNCHANGED <<attempt, retries, delayMs, outstanding, gets, response, thrown>>
    /\ UNCHANGED <<received, cfgVars, pc, searchVars, fetchVars, outcome, result, trace,
                   waited, extractVars>>

\* console.log('Retry attempt ...'); await delay(delayMs);   (line 228)
RetryPreDelay ==
    /\ rpc = "preDelay"
    /\ rpc' = "get"
    /\ trace' = Append(trace, "retryDelay")
    /\ waited' = waited + delayMs
    /\ UNCHANGED <<attempt, retries, delayMs, outstanding, gets, response, thrown>>
    /\ UNCHANGED <<received, cfgVars, pc, searchVars, fetchVars, outcome, result, extractVars>>

\* a client that fires a second GET without awaiting the first
IssueGet_twice ==
    /\ rpc = "get"
    /\ rpc' = "waiting"
    /\ outstanding' = outstanding + 2
    /\ gets' = gets + 2
    /\ trace' = trace \o <<"get", "get">>
    /\ UNCHANGED <<attempt, retries, delayMs, response, thrown>>
    /\ UNCHANGED <<received, cfgVars, pc, searchVars, fetchVars, outcome, result, waited,
                   extractVars>>

\* axios.get(url) is issued
IssueGet ==
    /\ rpc = "get"
    /\ rpc' = "waiting"
    /\ outstanding' = outstanding + 1
    /\ gets' = gets + 1
    /\ trace' = Append(trace, "get")
    /\ UNCHANGED <<attempt, retries, delayMs, response, thrown>>
    /\ UNCHANGED <<received, cfgVars, pc, searchVars, fetchVars, outcome, result, waited,
                   extractVars>>

\* return await axios.get(url);  the promise resolves with payload p
GetResolves(p) ==
    /\ rpc = "waiting"
    /\ rpc' = "returned"
    /\ outstanding' = outstanding - 1
    /\ response' = p
    /\ received' = Append(received, p)
    /\ trace' = Append(trace, "ok")
    /\ UNCHANGED <<attempt, retries, delayMs, gets, thrown>>
    /\ UNCHANGED <<cfgVars, pc, searchVars, fetchVars, outcome, result, waited,
                   extractVars>>

\* a client that gives up one attempt early
isLastAttempt_early(a, r) == a = r - 1

\* a client that never recognises its last attempt
isLastAttempt_never(a, r) == FALSE

\* isLastAttempt, computed after attempt++ : attempt === retries
isLastAttempt(a, r) == a = r

\* catch (error) { attempt++; ... if (isLastAttempt) throw error; ... }
GetRejects ==
    /\ rpc = "waiting"
    /\ outstanding' = outstanding - 1
    /\ attempt' = attempt + 1
    /\ trace' = Append(trace, "fail")
    /\ IF isLastAttempt(attempt + 1, retries)
         THEN rpc' = "thrown" /\ thrown' = gets
         ELSE rpc' = "postDelay" /\ thrown' = thrown
    /\ UNCHANGED <<retries, delayMs, gets, response>>
    /\ UNCHANGED <<received, cfgVars, pc, searchVars, fetchVars, outcome, result, waited,
                   extractVars>>

\* await delay(delayMs);  at the end of the catch block   (line 240)
RetryPostDelay ==
    /\ rpc = "postDelay"
    /\ rpc' = "loop"
    /\ trace' = Append(trace, "retryDelay")
    /\ waited' = waited + delayMs
    /\ UNCHANGED <<attempt, retries, delayMs, outstanding, gets, response, thrown>>
    /\ UNCHANGED <<received, cfgVars, pc, searchVars, fetchVars, outcome, result, extractVars>>

(***************************************************************************)
(* PubMedService.searchArticles()                                          *)
(***************************************************************************)
otherThanSearch == <<cfgVars, fetchVars, extractVars, received>>

\* a cap test that lets the offset reach MAX_RESULTS
UnderCap_inclusive(r) == r <= MAX_RESULTS

\* retStart < MAX_RESULTS   (lines 46 and 67)
UnderCap(r) == r < MAX_RESULTS

\* while (retStart < MAX_RESULTS) { ... await fetchWithRetry(searchUrl)
SearchLoop ==
    /\ mode = "search" /\ pc = "loop"
    /\ IF UnderCap(retStart)
         THEN /\ pc' = "await"
              /\ trace' = Append(trace, "call")
              /\ offsets' = Append(offsets, retStart)
              /\ EnterFetchWithRetry(DefaultRetries, DELAY_MS)
         ELSE /\ pc' = "end"
              /\ UNCHANGED <<trace, offsets, retryVars>>
    /\ UNCHANGED <<retStart, allIds, outcome, result, waited, otherThanSearch>>

\* a paginator that waits after every full page
PageDelayDue_always(r) == TRUE

\* if (retStart < MAX_RESULTS), after retStart += DEFAULT_RETMAX   (line 67)
PageDelayDue(r) == UnderCap(r)

\* a paginator that never takes a short page for the last one
ShortPage_never(n) == FALSE

\* ids.length < DEFAULT_RETMAX   (line 64)
ShortPage(n) == n < DEFAULT_RETMAX

\* a paginator for which a page without identifier list is an error
SearchPage_absentFails ==
    /\ mode = "search" /\ pc = "await" /\ rpc = "returned"
    /\ rpc' = "idle"
    /\ IF response.kind = "absent"
         THEN /\ pc' = "done"
              /\ outcome' = "NoResultsError"
              /\ UNCHANGED <<retStart, allIds>>
         ELSE LET page == AsArray(response) IN
              /\ UNCHANGED outcome
              /\ allIds' = allIds \o page
              /\ IF ShortPage(Len(page))
                   THEN \* if (ids.length < DEFAULT_RETMAX) break;
                        /\ pc' = "end"
                        /\ UNCHANGED retStart
                   ELSE /\ retStart' = retStart + DEFAULT_RETMAX
                        /\ pc' = IF PageDelayDue(retStart + DEFAULT_RETMAX)
                                   THEN "delay" ELSE "loop"
    /\ UNCHANGED <<attempt, retries, delayMs, outstanding, gets, response, thrown>>
    /\ UNCHANGED <<offsets, result, trace, waited, otherThanSearch>>

\* lines 54-70: the page has been received and decoded
SearchPage ==
    /\ mode = "search" /\ pc = "await" /\ rpc = "returned"
    /\ rpc' = "idle"
    /\ IF response.kind = "absent"
         THEN \* if (!searchResult.eSearchResult?.IdList?.Id) break;
              /\ pc' = "end"
              /\ UNCHANGED <<retStart, allIds>>
         ELSE LET page == AsArray(response) IN
              /\ allIds' = allIds \o page
              /\ IF ShortPage(Len(page))
                   THEN \* if (ids.length < DEFAULT_RETMAX) break;
                        /\ pc' = "end"
                        /\ UNCHANGED retStart
                   ELSE /\ retStart' = retStart + DEFAULT_RETMAX
                        /\ pc' = IF PageDelayDue(retStart + DEFAULT_RETMAX)
                                   THEN "delay" ELSE "loop"
    /\ UNCHANGED <<attempt, retries, delayMs, outstanding, gets, response, thrown>>
    /\ UNCHANGED <<offsets, outcome, result, trace, waited, otherThanSearch>>

\* await delay(DELAY_MS);   (line 69)
SearchDelay ==
    /\ mode = "search" /\ pc = "delay"
    /\ pc' = "loop"
    /\ trace' = Append(trace, "pageDelay")
    /\ waited' = waited + DELAY_MS
    /\ UNCHANGED <<retryVars, searchVars, outcome, result, otherThanSearch>>

\* an empty accumulator that is returned instead of raised
NoIdsFound_never(acc) == FALSE

\* !allIds.length   (line 73)
NoIdsFound(acc) == Len(acc) = 0

\* lines 73-75: after the loop
SearchEnd ==
    /\ mode = "search" /\ pc = "end"
    /\ pc' = "done"
    /\ IF NoIdsFound(allIds)
         THEN outcome' = "NoResultsError" /\ UNCHANGED result
         ELSE outcome' = "returned" /\ result' = allIds
    /\ UNCHANGED <<retryVars, searchVars, trace, waited, otherThanSearch>>

\* a paginator that salvages what it has when a request is exhausted
SearchThrows_salvage ==
    /\ mode = "search" /\ pc = "await" /\ rpc = "thrown"
    /\ rpc' = "idle"
    /\ pc' = "done"
    /\ outcome' = "returned"
    /\ result' = allIds
    /\ UNCHANGED <<attempt, retries, delayMs, outstanding, gets, response, thrown>>
    /\ UNCHANGED <<searchVars, trace, waited, otherThanSearch>>

\* fetchWithRetry threw: nothing in searchArticles catches it
SearchThrows ==
    /\ mode = "search" /\ pc = "await" /\ rpc = "thrown"
    /\ rpc' = "idle"
    /\ pc' = "done"
    /\ outcome' = "RequestError"
    /\ UNCHANGED <<attempt, retries, delayMs, outstanding, gets, response, thrown>>
    /\ UNCHANGED <<searchVars, result, trace, waited, otherThanSearch>>

(***************************************************************************)
(* Decoded article records.                                                *)
(*   Strings that the code inspects character by character (titles,        *)
(*   keywords, years) are sequences of one-character strings; names and    *)
(*   affiliations are strings, "" standing for an absent or empty field    *)
(*   (both are falsy in the code).                                         *)
(***************************************************************************)
\* ArticleTitle as decoded: absent, a string, or an object whose `_` is text
\* (text = <<>> when the object has no `_`)
NoTitle == [kind |-> "absent", text |-> <<>>]
Plain(t) == [kind |-> "plain", text |-> t]
Structured(t) == [kind |-> "object", text |-> t]

\* String.prototype.toLowerCase, on the characters the model uses
Lower(c) == CASE c = "G" -> "g"
              [] c = "X" -> "x"
              [] c = "O" -> "o"
              [] OTHER -> c

toLowerCase(s) == [k \in 1..Len(s) |-> Lower(s[k])]

IsSpace(c) == c = " "

RECURSIVE trimStart(_)
trimStart(s) == IF s # <<>> /\ IsSpace(Head(s)) THEN trimStart(Tail(s)) ELSE s

RECURSIVE trimEnd(_)
trimEnd(s) ==
    IF s # <<>> /\ IsSpace(s[Len(s)]) THEN trimEnd(SubSeq(s, 1, Len(s) - 1)) ELSE s

\* String.prototype.trim
trim(s) == trimEnd(trimStart(s))

\* String.prototype.includes
includes(s, k) ==
    \E p \in 0..Len(s) : p + Len(k) <= Len(s) /\ SubSeq(s, p + 1, p + Len(k)) = k

\* Object.prototype.toString of a decoded element: "[object Object]"
ObjectToString ==
    <<"[", "o", "b", "j", "e", "c", "t", " ", "O", "b", "j", "e", "c", "t", "]">>

\* a || b  on strings
OrElse(a, b) == IF a # <<>> THEN a ELSE b

\* normalizeTitle(title)   (lines 109-114)
normalizeTitle(title) ==
    IF title.kind = "object"
      THEN toLowerCase(trim(OrElse(OrElse(title.text, ObjectToString), <<>>)))
      ELSE toLowerCase(trim(OrElse(title.text, <<>>)))

\* a keyword match that does not lowercase the keyword
validateTitle_caseSensitive(title) ==
    LET normalized == normalizeTitle(title) IN
    \E k \in 1..Len(KEYWORDS) : includes(normalized, KEYWORDS[k])

\* validateTitle(title)   (lines 116-119)
validateTitle(title) ==
    LET normalized == normalizeTitle(title) IN
    \E k \in 1..Len(KEYWORDS) : includes(normalized, toLowerCase(KEYWORDS[k]))

\* !title : undefined and '' are falsy, an object is truthy
TitleMissing(title) ==
    title.kind = "absent" \/ (title.kind = "plain" /\ title.text = <<>>)

\* a validator that lets every record through
validateArticleData_all(article) == TRUE

\* validateArticleData(article, index)   (lines 121-139)
validateArticleData(article) ==
    IF TitleMissing(article.ArticleTitle)
      THEN FALSE
      ELSE LET titleStr == normalizeTitle(article.ArticleTitle) IN
           IF ~validateTitle(Plain(titleStr)) THEN FALSE ELSE TRUE

\* a formatter that prefers the collective name to the personal one
formatAuthorName_collectiveFirst(author) ==
    IF author.CollectiveName # "" THEN author.CollectiveName
    ELSE IF author.LastName # "" /\ author.ForeName # ""
      THEN author.ForeName \o " " \o author.LastName
    ELSE IF author.LastName # "" THEN author.LastName
    ELSE ""

\* formatAuthorName(author)   (lines 190-197)
formatAuthorName(author) ==
    IF author.LastName # "" /\ author.ForeName # ""
      THEN author.ForeName \o " " \o author.LastName
    ELSE IF author.LastName # "" THEN author.LastName
    ELSE IF author.CollectiveName # "" THEN author.CollectiveName
    ELSE ""

\* addAffiliations(author, affiliationSet)   (lines 199-211): the set afterwards
addAffiliations(author, affiliationSet) ==
    IF author.AffiliationInfo.kind = "absent"
      THEN affiliationSet
      ELSE LET infos == AsArray(author.AffiliationInfo) IN
           affiliationSet \cup
               {infos[k].Affiliation : k \in {j \in 1..Len(infos) : infos[j].Affiliation # ""}}

\* a title string that drops the brackets of a blank year
TitleWithYear_blankDropped(title, year) ==
    IF year = <<>> THEN title ELSE title \o <<" ", "(">> \o year \o <<")">>

\* `${title} (${year})`
TitleWithYear(title, year) == title \o <<" ", "(">> \o year \o <<")">>

\* an aggregation that does not skip authors without a name
AddAuthor_unnamed(map, author, titleWithYear) ==
    LET fullName == formatAuthorName(author)
        old == IF fullName \in DOMAIN map
                 THEN map[fullName]
                 ELSE [affiliations |-> {}, titles |-> {}]
        new == [affiliations |-> addAffiliations(author, old.affiliations),
                titles |-> old.titles \cup {titleWithYear}]
    IN [n \in DOMAIN map \cup {fullName} |-> IF n = fullName THEN new ELSE map[n]]

\* an aggregation that starts a fresh entry for every occurrence of an author
AddAuthor_overwrite(map, author, titleWithYear) ==
    LET fullName == formatAuthorName(author) IN
    IF fullName = ""
      THEN map
      ELSE LET new == [affiliations |-> addAffiliations(author, {}),
                       titles |-> {titleWithYear}]
           IN [n \in DOMAIN map \cup {fullName} |->
                  IF n = fullName THEN new ELSE map[n]]

\* the body of authors.forEach (lines 166-179) for one author
AddAuthor(map, author, titleWithYear) ==
    LET fullName == formatAuthorName(author) IN
    IF fullName = ""
      THEN map
      ELSE LET old == IF fullName \in DOMAIN map
                        THEN map[fullName]
                        ELSE [affiliations |-> {}, titles |-> {}]
               new == [affiliations |-> addAffiliations(author, old.affiliations),
                       titles |-> old.titles \cup {titleWithYear}]
           IN [n \in DOMAIN map \cup {fullName} |->
                  IF n = fullName THEN new ELSE map[n]]

RECURSIVE AddAuthors(_, _, _)
AddAuthors(map, authors, titleWithYear) ==
    IF authors = <<>>
      THEN map
      ELSE AddAuthors(AddAuthor(map, Head(authors), titleWithYear),
                      Tail(authors), titleWithYear)

\* the body of articles.forEach (lines 146-180) for one article
ProcessArticle(acc, article) ==
    IF ~validateArticleData(article)
      THEN [acc EXCEPT !.skippedCount = @ + 1]
      ELSE LET title == normalizeTitle(article.ArticleTitle)
               year == OrElse(article.Year, <<>>)
               titleWithYear == TitleWithYear(title, year)
           IN [acc EXCEPT
                 !.processedCount = @ + 1,
                 !.authorMap = IF article.Author.kind = "absent"
                                 THEN @
                                 ELSE AddAuthors(@, AsArray(article.Author),
                                                 titleWithYear)]

RECURSIVE ForEachArticle(_, _)
ForEachArticle(acc, arts) ==
    IF arts = <<>> THEN acc
    ELSE ForEachArticle(ProcessArticle(acc, Head(arts)), Tail(arts))

\* new Map()
EmptyMap == [n \in {} |-> [affiliations |-> {}, titles |-> {}]]

\* extractAuthorInfo(articles)   (lines 141-188)
extractAuthorInfo(arts) ==
    ForEachArticle([authorMap |-> EmptyMap, processedCount |-> 0,
                    skippedCount |-> 0], arts)

(***************************************************************************)
(* Bounded sets of decoded records the operations are run on.              *)
(***************************************************************************)
TitleAlphabet == {"G", " "}
TitleTexts == SeqsUpTo(TitleAlphabet, MaxTitleLen) \cup {<<"x">>, <<"x", "G">>}
ShortTexts == SeqsUpTo(TitleAlphabet, 1)
TitleFields ==
    {NoTitle} \cup {Plain(t) : t \in TitleTexts} \cup {Structured(t) : t \in ShortTexts}

Years == {<<>>, <<"2", "0">>}

KeywordLists ==
    { << <<"g">> >>, << <<"X">>, <<"g", " ">>, <<"o", "b">> >> }

Info(a) == [Affiliation |-> a]
AffiliationFields ==
    {Absent} \cup {One(Info(a)) : a \in {"", "MIT"}}
             \cup {Many(<<Info("MIT"), Info(a)>>) : a \in {"", "MIT", "NIH"}}

Author(l, f, c, aff) ==
    [LastName |-> l, ForeName |-> f, CollectiveName |-> c, AffiliationInfo |-> aff]

JaneSmith == Author("Smith", "Jane", "", One(Info("MIT")))

AuthorPool ==
    {Author(l, f, c, One(Info("MIT"))) :
        l \in {"", "Smith"}, f \in {"", "Jane"}, c \in {"", "WHO"}}
    \cup {Author("Smith", "Jane", "", aff) : aff \in AffiliationFields}

PairedAuthors ==
    <<JaneSmith, Author("Smith", "", "", One(Info("NIH"))), Author("", "Jane", "", Absent)>>

AuthorFields ==
    {Absent} \cup {One(a) : a \in AuthorPool}
             \cup {Many(<<PairedAuthors[k], PairedAuthors[(k % 3) + 1]>>) : k \in 1..3}

Article(t, y, au) == [ArticleTitle |-> t, Year |-> y, Author |-> au]

ArticlePool ==
    {Article(t, <<"2", "0">>, One(JaneSmith)) : t \in TitleFields}
    \cup {Article(Plain(<<"G">>), y, One(JaneSmith)) : y \in Years}
    \cup {Article(Plain(<<"G">>), <<"2", "0">>, au) : au \in AuthorFields}

\* the records the efetch endpoint answers with
SampleArticles ==
    {Article(Plain(<<"G">>), <<"2", "0">>, One(JaneSmith)),
     Article(Plain(<<"x">>), <<>>, Absent)}

(***************************************************************************)
(* PubMedService.fetchArticleDetails(ids)                                  *)
(***************************************************************************)
otherThanFetch == <<cfgVars, searchVars, extractVars, received>>

\* a slice that takes its end index inclusively
slice_inclusive(s, a, b) == SubSeq(s, a + 1, Min(b + 1, Len(s)))

\* Array.prototype.slice(a, b), 0-based, b exclusive
slice(s, a, b) == SubSeq(s, a + 1, Min(b, Len(s)))

\* for (let i = 0; i < ids.length; i += BATCH_SIZE) batches.push(ids.slice(i, i + BATCH_SIZE))
RECURSIVE MakeBatches(_, _, _)
MakeBatches(idSeq, k, size) ==
    IF k < Len(idSeq)
      THEN <<slice(idSeq, k, k + size)>> \o MakeBatches(idSeq, k + size, size)
      ELSE <<>>

\* lines 79-86: everything before the first await
FetchStart ==
    /\ mode = "fetch" /\ pc = "start"
    /\ batches' = MakeBatches(ids, 0, BATCH_SIZE)
    /\ i' = 0
    /\ allArticles' = <<>>
    /\ pc' = "loop"
    /\ UNCHANGED <<ids, chunks, retryVars, outcome, result, trace, waited,
                   otherThanFetch>>

\* for (let i = 0; i < batches.length; i++) { ... await fetchWithRetry(fetchUrl)
FetchLoop ==
    /\ mode = "fetch" /\ pc = "loop"
    /\ IF i < Len(batches)
         THEN /\ pc' = "await"
              /\ trace' = Append(trace, "call")
              /\ chunks' = Append(chunks, batches[i + 1])
              /\ EnterFetchWithRetry(DefaultRetries, DELAY_MS)
              /\ UNCHANGED <<outcome, result>>
         ELSE \* return allArticles;
              /\ pc' = "done"
              /\ outcome' = "returned"
              /\ result' = allArticles
              /\ UNCHANGED <<trace, chunks, retryVars>>
    /\ UNCHANGED <<ids, batches, i, allArticles, waited, otherThanFetch>>

\* a fetcher that also waits after the last batch
MoreBatches_always(k, n) == k < n

\* if (i < batches.length - 1), evaluated with JavaScript numbers
MoreBatches(k, n) == k + 1 < n

\* lines 93-103: the batch has been received and decoded
FetchBatch ==
    /\ mode = "fetch" /\ pc = "await" /\ rpc = "returned"
    /\ rpc' = "idle"
    /\ allArticles' = IF response.kind = "absent"
                        THEN allArticles
                        ELSE allArticles \o AsArray(response)
    /\ IF MoreBatches(i, Len(batches))
         THEN pc' = "delay" /\ UNCHANGED i
         ELSE pc' = "loop" /\ i' = i + 1
    /\ UNCHANGED <<attempt, retries, delayMs, outstanding, gets, response, thrown>>
    /\ UNCHANGED <<ids, batches, chunks, outcome, result, trace, waited,
                   otherThanFetch>>

\* await delay(DELAY_MS);  then i++   (line 102)
FetchDelay ==
    /\ mode = "fetch" /\ pc = "delay"
    /\ pc' = "loop"
    /\ i' = i + 1
    /\ trace' = Append(trace, "batchDelay")
    /\ waited' = waited + DELAY_MS
    /\ UNCHANGED <<ids, batches, allArticles, chunks, retryVars, outcome, result,
                   otherThanFetch>>

\* fetchWithRetry threw: nothing in fetchArticleDetails catches it
FetchThrows ==
    /\ mode = "fetch" /\ pc = "await" /\ rpc = "thrown"
    /\ rpc' = "idle"
    /\ pc' = "done"
    /\ outcome' = "RequestError"
    /\ UNCHANGED <<attempt, retries, delayMs, outstanding, gets, response, thrown>>
    /\ UNCHANGED <<fetchVars, result, trace, waited, otherThanFetch>>

\* PubmedArticleSet.PubmedArticle for the batch being requested
FetchPayloads ==
    LET asked == IF chunks = <<>> THEN 0 ELSE Len(chunks[Len(chunks)]) IN
    {Absent} \cup {One(a) : a \in SampleArticles}
             \cup {Many(s) : s \in UNION {[1..k -> SampleArticles] : k \in 2..asked}}

(***************************************************************************)
(* PubMedService.extractAuthorInfo(articles): synchronous, one step        *)
(***************************************************************************)
ExtractAuthorInfo ==
    /\ mode = "extract" /\ pc = "start"
    /\ LET r == extractAuthorInfo(articles) IN
         /\ authorMap' = r.authorMap
         /\ processedCount' = r.processedCount
         /\ skippedCount' = r.skippedCount
    /\ index' = Len(articles)
    /\ pc' = "done"
    /\ outcome' = "returned"
    /\ UNCHANGED <<articles, cfgVars, retryVars, searchVars, fetchVars, result,
                   trace, waited, received>>

(***************************************************************************)
(* Initial states and specifications, one per exported function.           *)
(***************************************************************************)
InitRetryVars ==
    /\ rpc = "idle" /\ attempt = 0 /\ retries = DefaultRetries
    /\ delayMs = DELAY_MS /\ outstanding = 0 /\ gets = 0
    /\ response = NoResponse /\ thrown = 0

InitLocals ==
    /\ retStart = 0 /\ allIds = <<>> /\ offsets = <<>>
    /\ batches = <<>> /\ i = 0 /\ allArticles = <<>> /\ chunks = <<>>
    /\ outcome = "running" /\ result = <<>>
    /\ trace = <<>> /\ waited = 0 /\ received = <<>>
    /\ index = 0 /\ authorMap = EmptyMap /\ processedCount = 0 /\ skippedCount = 0

\* a direct call fetchWithRetry(url, retries, delayMs), about to enter the loop
InitRetry ==
    /\ mode = "direct" /\ pc = "await"
    /\ DELAY_MS \in 1..MaxDelayMs
    /\ MAX_RESULTS = 1 /\ DEFAULT_RETMAX = 1 /\ BATCH_SIZE = 1
    /\ KEYWORDS = << <<"g">> >>
    /\ rpc = "loop" /\ attempt = 0 /\ retries \in 0..MaxRetries
    /\ delayMs \in 1..MaxDelayMs /\ outstanding = 0 /\ gets = 0
    /\ response = NoResponse /\ thrown = 0
    /\ ids = <<>> /\ articles = <<>>
    /\ InitLocals

NextRetry ==
    \/ RetryLoop
    \/ RetryPreDelay
    \/ IssueGet
    \/ \E p \in DirectPayloads : GetResolves(p)
    \/ GetRejects
    \/ RetryPostDelay

SpecRetry == InitRetry /\ [][NextRetry]_vars

\* a call searchArticles(), at `let retStart = 0`
InitSearch ==
    /\ mode = "search" /\ pc = "loop"
    /\ DELAY_MS = MaxDelayMs
    /\ DEFAULT_RETMAX \in 1..MaxRetmax
    /\ MAX_RESULTS \in 1..MaxMaxResults
    /\ BATCH_SIZE = 1
    /\ KEYWORDS = << <<"g">> >>
    /\ InitRetryVars
    /\ ids = <<>> /\ articles = <<>>
    /\ InitLocals

NextSearch ==
    \/ SearchLoop
    \/ SearchPage
    \/ SearchDelay
    \/ SearchEnd
    \/ SearchThrows
    \/ RetryLoop
    \/ RetryPreDelay
    \/ IssueGet
    \/ \E p \in SearchPayloads : GetResolves(p)
    \/ GetRejects
    \/ RetryPostDelay

SpecSearch == InitSearch /\ [][NextSearch]_vars

\* a call fetchArticleDetails(ids)
InitFetch ==
    /\ mode = "fetch" /\ pc = "start"
    /\ DELAY_MS = MaxDelayMs
    /\ BATCH_SIZE \in 1..MaxBatch
    /\ MAX_RESULTS = 1 /\ DEFAULT_RETMAX = 1
    /\ KEYWORDS = << <<"g">> >>
    /\ InitRetryVars
    /\ ids \in SeqsUpTo(Ids, MaxIds)
    /\ articles = <<>>
    /\ InitLocals

NextFetch ==
    \/ FetchStart
    \/ FetchLoop
    \/ FetchBatch
    \/ FetchDelay
    \/ FetchThrows
    \/ RetryLoop
    \/ RetryPreDelay
    \/ IssueGet
    \/ \E p \in FetchPayloads : GetResolves(p)
    \/ GetRejects
    \/ RetryPostDelay

SpecFetch == InitFetch /\ [][NextFetch]_vars

\* a call extractAuthorInfo(articles)
InitExtract ==
    /\ mode = "extract" /\ pc = "start"
    /\ DELAY_MS = 1 /\ MAX_RESULTS = 1 /\ DEFAULT_RETMAX = 1 /\ BATCH_SIZE = 1
    /\ KEYWORDS \in KeywordLists
    /\ InitRetryVars
    /\ ids = <<>>
    /\ articles \in SeqsUpTo(ArticlePool, MaxArticles)
    /\ InitLocals

NextExtract == ExtractAuthorInfo

SpecExtract == InitExtract /\ [][NextExtract]_vars

\* either service method that issues requests
Payloads == IF mode = "search" THEN SearchPayloads ELSE FetchPayloads

InitService == InitSearch \/ InitFetch

NextService ==
    \/ SearchLoop
    \/ SearchPage
    \/ SearchDelay
    \/ SearchEnd
    \/ SearchThrows
    \/ FetchStart
    \/ FetchLoop
    \/ FetchBatch
    \/ FetchDelay
    \/ FetchThrows
    \/ RetryLoop
    \/ RetryPreDelay
    \/ IssueGet
    \/ \E p \in Payloads : GetResolves(p)
    \/ GetRejects
    \/ RetryPostDelay

SpecService == InitService /\ [][NextService]_vars

(***************************************************************************)
(* Operators used to state the properties.                                 *)
(***************************************************************************)
RECURSIVE Flatten(_)
Flatten(ss) == IF ss = <<>> THEN <<>> ELSE Head(ss) \o Flatten(Tail(ss))

CeilDiv(n, d) == (n + d - 1) \div d

LastEvent == IF trace = <<>> THEN "none" ELSE trace[Len(trace)]

\* the identifiers carried by a decoded search payload
PageIds(p) == IF p.kind = "absent" THEN <<>> ELSE AsArray(p)

PagesReceived == [k \in 1..Len(received) |-> PageIds(received[k])]

(***************************************************************************)
(* C1: for retries >= 1, fetchWithRetry issues exactly min(k, retries) GET *)
(* attempts, k being the first successful attempt: a success returns that  *)
(* attempt's response at once and no GET follows it; after `retries`       *)
(* failures it throws the error of the last attempt; it never returns      *)
(* without a response.                                                     *)
(***************************************************************************)
C1_RetryContract ==
    retries >= 1 =>
      /\ rpc # "fellOff"
      /\ gets <= retries
      /\ Count(trace, "get") = gets
      /\ Count(trace, "ok") <= 1
      /\ Count(trace, "ok") = 1 <=> rpc = "returned"
      /\ rpc = "returned" =>
            /\ response.kind = "body"
            /\ LastEvent = "ok"
            /\ Count(trace, "fail") = gets - 1
      /\ rpc = "thrown" =>
            /\ gets = retries
            /\ thrown = retries
            /\ Count(trace, "fail") = retries
      /\ Count(trace, "fail") = retries => rpc = "thrown"

C1_Witness ==
    /\ retries = 4 /\ rpc = "returned" /\ gets = 3
    /\ trace[Len(trace) - 1] = "get"

(***************************************************************************)
(* C3 as claimed: between two consecutive GET attempts fetchWithRetry      *)
(* waits a single delayMs, so the number of delayMs waits equals the       *)
(* number of retries performed (no wait before the first GET, none after   *)
(* the final failure).                                                     *)
(***************************************************************************)
C3_SingleDelayPerRetry ==
    (gets >= 1 /\ rpc \in {"waiting", "returned", "thrown"}) =>
        /\ Count(trace, "retryDelay") = gets - 1
        /\ waited = delayMs * (gets - 1)

(***************************************************************************)
(* C2 as claimed: with MAX_RESULTS twice the page size and only full       *)
(* pages, searchArticles also fetches a page at offset MAX_RESULTS (three  *)
(* pages, at offsets 0, DEFAULT_RETMAX and 2 * DEFAULT_RETMAX).            *)
(***************************************************************************)
OnlyFullPages ==
    /\ Len(received) = Len(offsets)
    /\ \A k \in 1..Len(received) : Len(PageIds(received[k])) = DEFAULT_RETMAX

C2_FetchAtCapOccurs ==
    (MAX_RESULTS = 2 * DEFAULT_RETMAX /\ pc = "done" /\ OnlyFullPages) =>
        offsets = <<0, DEFAULT_RETMAX, 2 * DEFAULT_RETMAX>>

(***************************************************************************)
(* C2 amended: with MAX_RESULTS twice the page size and only full pages,   *)
(* searchArticles fetches exactly two pages, at offsets 0 and              *)
(* DEFAULT_RETMAX; no page is fetched at offset MAX_RESULTS, because the   *)
(* check retStart < MAX_RESULTS precedes the fetch and fails there.        *)
(***************************************************************************)
C2_NoFetchAtCap ==
    MAX_RESULTS = 2 * DEFAULT_RETMAX =>
        /\ \A k \in 1..Len(offsets) : offsets[k] < MAX_RESULTS
        /\ Len(offsets) <= 2
        /\ (pc = "done" /\ OnlyFullPages) =>
              /\ offsets = <<0, DEFAULT_RETMAX>>
              /\ outcome = "returned"
              /\ Len(result) = MAX_RESULTS

C2_Witness ==
    /\ MAX_RESULTS = 4 /\ DEFAULT_RETMAX = 2
    /\ pc = "done" /\ OnlyFullPages /\ Len(result) = 4

(***************************************************************************)
(* C4: searchArticles fails with the no-results error exactly when         *)
(* pagination completed (no request exhausted its retries) with nothing    *)
(* accumulated; that happens after exactly one page request, the one at    *)
(* offset 0 whose identifier list is absent, and no detail request is      *)
(* issued.                                                                 *)
(***************************************************************************)
C4_NoResults ==
    /\ pc = "done" =>
         (outcome = "NoResultsError" <=> (LastEvent # "fail" /\ allIds = <<>>))
    /\ outcome = "NoResultsError" =>
         /\ pc = "done"
         /\ offsets = <<0>>
         /\ received[Len(received)].kind = "absent"
         /\ Count(trace, "ok") = 1
         /\ chunks = <<>>
         /\ result = <<>>

C4_Witness ==
    /\ outcome = "NoResultsError" /\ gets = 2 /\ MAX_RESULTS >= 2 * DEFAULT_RETMAX

(***************************************************************************)
(* C5: when a page or batch request fails on all its attempts, the         *)
(* enclosing call ends failed with the request error: nothing from that    *)
(* request reaches the accumulator, no later page or batch is requested,   *)
(* and nothing accumulated earlier is returned.                            *)
(***************************************************************************)
C5_NoPartialOnExhaustion ==
    [][ /\ rpc = "thrown" =>
              /\ pc' = "done" /\ outcome' = "RequestError"
              /\ allIds' = allIds /\ allArticles' = allArticles
              /\ offsets' = offsets /\ chunks' = chunks
        /\ (pc = "await" /\ rpc # "returned") =>
              (allIds' = allIds /\ allArticles' = allArticles)
        /\ outcome' = "RequestError" =>
              /\ pc' = "done"
              /\ result' = <<>>
              /\ gets' = DefaultRetries /\ thrown' = DefaultRetries
              /\ Len(received') = Len(offsets') + Len(chunks') - 1
              /\ trace'[Len(trace')] = "fail"
        /\ outcome = "RequestError" => UNCHANGED vars
      ]_vars

C5_Witness ==
    /\ mode = "search" /\ outcome = "RequestError"
    /\ Len(allIds) >= 2 /\ Len(offsets) = 2 /\ result = <<>>

(***************************************************************************)
(* C6: searchArticles stops at the first page with fewer identifiers than  *)
(* the page size and returns the in-order concatenation of the             *)
(* identifiers of all pages fetched, repetitions kept (pages of sizes      *)
(* [R, R, r] with r < R: three page requests, 2R + r identifiers).  An     *)
(* empty concatenation is not returned but raised (C4).                    *)
(***************************************************************************)
C6_ConcatUntilShortPage ==
    /\ \A k \in 1..(Len(received) - 1) :
           Len(PageIds(received[k])) = DEFAULT_RETMAX
    /\ pc # "await" => allIds = Flatten(PagesReceived)
    /\ (received # <<>> /\ Len(PageIds(received[Len(received)])) < DEFAULT_RETMAX)
           => Len(offsets) = Len(received)
    /\ outcome = "returned" =>
           /\ result = Flatten(PagesReceived)
           /\ Len(offsets) = Len(received)
           /\ \/ Len(PageIds(received[Len(received)])) < DEFAULT_RETMAX
              \/ Len(offsets) * DEFAULT_RETMAX >= MAX_RESULTS
    /\ (pc = "done" /\ Len(received) = Len(offsets) /\ Flatten(PagesReceived) # <<>>)
           => outcome = "returned"

C6_Witness ==
    /\ outcome = "returned" /\ DEFAULT_RETMAX = 2 /\ Len(offsets) = 3
    /\ result = <<1, 2, 1, 2, 1>> /\ LastEvent = "ok"

(***************************************************************************)
(* C7: fetchArticleDetails requests ceil(n / BATCH_SIZE) batches in order  *)
(* (none, and an empty result, for n = 0); the batches are consecutive     *)
(* slices of ids, all of size BATCH_SIZE except possibly the last, which   *)
(* has 1..BATCH_SIZE identifiers, and their concatenation is ids.          *)
(***************************************************************************)
C7_Chunking ==
    LET n == Len(ids)
        b == CeilDiv(n, BATCH_SIZE)
    IN /\ Len(chunks) <= b
       /\ Count(trace, "call") = Len(chunks)
       /\ \A k \in 1..Len(chunks) :
             /\ chunks[k] = SubSeq(ids, (k - 1) * BATCH_SIZE + 1, Min(k * BATCH_SIZE, n))
             /\ Len(chunks[k]) >= 1 /\ Len(chunks[k]) <= BATCH_SIZE
             /\ k < b => Len(chunks[k]) = BATCH_SIZE
       /\ outcome = "returned" => (Len(chunks) = b /\ Flatten(chunks) = ids)
       /\ (n = 0 /\ pc = "done") =>
             (outcome = "returned" /\ result = <<>> /\ chunks = <<>> /\ trace = <<>>)

C7_Witness ==
    /\ outcome = "returned" /\ BATCH_SIZE = 2 /\ ids = <<1, 2, 1>>
    /\ chunks = << <<1, 2>>, <<1>> >>

(***************************************************************************)
(* C8: fetchArticleDetails waits exactly one inter-batch delay between     *)
(* the completion of a batch and the request of the next one and none      *)
(* after the last batch: b batches give max(b - 1, 0) inter-batch delays.  *)
(***************************************************************************)
C8_InterBatchDelays ==
    /\ \A k \in 1..Len(trace) :
          /\ trace[k] = "batchDelay" =>
                /\ k > 1 /\ trace[k - 1] = "ok"
                /\ k < Len(trace) => trace[k + 1] = "call"
          /\ (trace[k] = "call" /\ k > 1) => trace[k - 1] = "batchDelay"
    /\ pc = "done" => LastEvent # "batchDelay"
    /\ outcome = "returned" =>
          /\ Count(trace, "batchDelay") =
                (IF Len(batches) >= 1 THEN Len(batches) - 1 ELSE 0)
          /\ waited = DELAY_MS * (Count(trace, "batchDelay") + Count(trace, "retryDelay"))

C8_Witness ==
    /\ outcome = "returned" /\ Len(batches) = 3 /\ Count(trace, "batchDelay") = 2
    /\ Count(trace, "fail") = 0

(***************************************************************************)
(* Validation as the specification words it: the title is present and      *)
(* non-empty and the normalized title contains a keyword.                  *)
(***************************************************************************)
PassesValidation(article) ==
    /\ ~TitleMissing(article.ArticleTitle)
    /\ \E k \in 1..Len(KEYWORDS) :
          includes(normalizeTitle(article.ArticleTitle), toLowerCase(KEYWORDS[k]))

AuthorsOf(article) ==
    IF article.Author.kind = "absent" THEN {}
    ELSE {AsArray(article.Author)[j] : j \in 1..Len(AsArray(article.Author))}

ValidatedAuthors ==
    UNION {AuthorsOf(articles[k]) :
              k \in {j \in 1..Len(articles) : PassesValidation(articles[j])}}

(***************************************************************************)
(* C9: after extractAuthorInfo the aggregate has an entry for a name       *)
(* exactly when some article that passes validation has an author          *)
(* formatting to that non-empty name; the empty string is never a key.     *)
(***************************************************************************)
C9_EntryIffValidatedAuthor ==
    pc = "done" =>
        /\ DOMAIN authorMap = {formatAuthorName(a) : a \in ValidatedAuthors} \ {""}
        /\ "" \notin DOMAIN authorMap

C9_Witness ==
    /\ pc = "done" /\ Len(articles) = 2
    /\ ~PassesValidation(articles[1]) /\ AuthorsOf(articles[1]) = {JaneSmith}
    /\ PassesValidation(articles[2])
    /\ \E a \in AuthorsOf(articles[2]) : formatAuthorName(a) = ""
    /\ DOMAIN authorMap = {"Smith"}

(***************************************************************************)
(* C10: validation is a pure filter: the aggregate of a sequence of        *)
(* records equals the aggregate of the same sequence without the records   *)
(* that fail validation; a failing record adds no entry, no title and no   *)
(* affiliation.                                                            *)
(***************************************************************************)
C10_ValidationIsFilter ==
    pc = "done" =>
        LET kept == SelectSeq(articles, PassesValidation) IN
        /\ authorMap = extractAuthorInfo(kept).authorMap
        /\ processedCount = Len(kept)
        /\ skippedCount = Len(articles) - Len(kept)
        /\ kept = <<>> => authorMap = EmptyMap

C10_Witness ==
    /\ pc = "done" /\ Len(articles) = 2
    /\ PassesValidation(articles[1]) /\ ~PassesValidation(articles[2])
    /\ articles[2].ArticleTitle = Plain(<<" ", " ">>)
    /\ AuthorsOf(articles[2]) = {JaneSmith}
    /\ DOMAIN authorMap = {"WHO"}

(***************************************************************************)
(* C11: aggregation is idempotent: processing a record a second time       *)
(* gives the same aggregate (same keys, same affiliation sets, same title  *)
(* sets) as processing it once.                                            *)
(***************************************************************************)
C11_Idempotent ==
    pc = "done" =>
        \A k \in 1..Len(articles) :
            ProcessArticle([authorMap |-> authorMap,
                            processedCount |-> processedCount,
                            skippedCount |-> skippedCount],
                           articles[k]).authorMap = authorMap

C11_Witness ==
    /\ pc = "done" /\ Len(articles) = 2 /\ articles[1] = articles[2]
    /\ PassesValidation(articles[1])
    /\ DOMAIN authorMap = {"Jane Smith"}
    /\ authorMap["Jane Smith"].affiliations = {"MIT", "NIH"}
    /\ Cardinality(authorMap["Jane Smith"].titles) = 1

(***************************************************************************)
(* The author name as the specification tabulates it.                      *)
(***************************************************************************)
ExpectedName(a) ==
    CASE a.LastName # "" /\ a.ForeName # "" -> a.ForeName \o " " \o a.LastName
      [] a.LastName # "" /\ a.ForeName = "" -> a.LastName
      [] a.LastName = "" /\ a.CollectiveName # "" -> a.CollectiveName
      [] OTHER -> ""

\* the record without the authors whose tabulated name is empty
WithoutUnnamed(article) ==
    IF article.Author.kind = "absent" THEN article
    ELSE LET named(a) == ExpectedName(a) # ""
             rest == SelectSeq(AsArray(article.Author), named)
         IN [article EXCEPT !.Author = IF rest = <<>> THEN Absent ELSE Many(rest)]

(***************************************************************************)
(* C12: formatAuthorName gives "<ForeName> <LastName>" when both are       *)
(* present, the last name when only it (of the two) is present, the        *)
(* collective name when there is no last name, and "" otherwise (also for  *)
(* a given name alone); an author formatting to "" contributes nothing.    *)
(***************************************************************************)
C12_NameFormat ==
    pc = "done" =>
        /\ \A a \in ValidatedAuthors :
              /\ formatAuthorName(a) = ExpectedName(a)
              /\ ExpectedName(a) # "" => ExpectedName(a) \in DOMAIN authorMap
        /\ DOMAIN authorMap = {ExpectedName(a) : a \in ValidatedAuthors} \ {""}
        /\ authorMap =
              extractAuthorInfo([k \in 1..Len(articles) |->
                                    WithoutUnnamed(articles[k])]).authorMap

C12_Witness ==
    /\ pc = "done" /\ Len(articles) = 2
    /\ AuthorsOf(articles[1]) = {Author("", "Jane", "WHO", One(Info("MIT")))}
    /\ AuthorsOf(articles[2]) = {JaneSmith, Author("", "Jane", "", Absent)}
    /\ DOMAIN authorMap = {"WHO", "Jane Smith"}

(***************************************************************************)
(* The normalized title and the keyword test as the specification words    *)
(* them: primary text (else the string conversion), without leading and    *)
(* trailing blanks, in lower case; a keyword occurs in it, case ignored.   *)
(***************************************************************************)
PrimaryText(title) ==
    IF title.kind = "object" /\ title.text = <<>> THEN ObjectToString ELSE title.text

Unpadded(t) ==
    LET solid == {k \in 1..Len(t) : t[k] # " "} IN
    IF solid = {} THEN <<>>
    ELSE SubSeq(t, CHOOSE k \in solid : \A j \in solid : k <= j,
                   CHOOSE k \in solid : \A j \in solid : k >= j)

NormalizedTitle(title) ==
    LET t == Unpadded(PrimaryText(title)) IN [k \in 1..Len(t) |-> Lower(t[k])]

OccursIgnoringCase(kw, t) ==
    \E p \in 0..Len(t) :
        /\ p + Len(kw) <= Len(t)
        /\ \A j \in 1..Len(kw) : Lower(t[p + j]) = Lower(kw[j])

HasKeyword(title) ==
    \E k \in 1..Len(KEYWORDS) : OccursIgnoringCase(KEYWORDS[k], NormalizedTitle(title))

(***************************************************************************)
(* C13: validateTitle is true exactly when the normalized title contains   *)
(* at least one configured keyword as a case-insensitive substring.        *)
(***************************************************************************)
C13_KeywordMatch ==
    pc = "done" =>
        /\ \A k \in 1..Len(articles) :
              validateTitle(articles[k].ArticleTitle)
                  <=> HasKeyword(articles[k].ArticleTitle)
        /\ processedCount =
              Cardinality({k \in 1..Len(articles) :
                              /\ ~TitleMissing(articles[k].ArticleTitle)
                              /\ HasKeyword(articles[k].ArticleTitle)})

C13_Witness ==
    /\ pc = "done" /\ Len(articles) = 2 /\ KEYWORDS[1] = <<"X">>
    /\ articles[1].ArticleTitle = Plain(<<"x">>)
    /\ articles[2].ArticleTitle = Plain(<<"G", " ">>)
    /\ processedCount = 1 /\ skippedCount = 1

(***************************************************************************)
(* C14: for every validated article and every author on it with a          *)
(* non-empty name, the author's entry holds the string                     *)
(* normalizedTitle + " (" + year + ")" (year "" when absent, giving        *)
(* "title ()") and every non-empty affiliation of that author; the entry   *)
(* holds nothing else.                                                     *)
(***************************************************************************)
ExpectedTitle(article) ==
    NormalizedTitle(article.ArticleTitle) \o <<" ", "(">> \o article.Year \o <<")">>

AffiliationsOf(a) ==
    IF a.AffiliationInfo.kind = "absent" THEN {}
    ELSE {AsArray(a.AffiliationInfo)[j].Affiliation :
             j \in 1..Len(AsArray(a.AffiliationInfo))} \ {""}

\* the (article index, author) pairs that contribute to the entry of name n
Contributions(n) ==
    {<<k, a>> \in (1..Len(articles)) \X ValidatedAuthors :
        /\ PassesValidation(articles[k])
        /\ a \in AuthorsOf(articles[k])
        /\ ExpectedName(a) = n}

C14_EntryContents ==
    pc = "done" =>
        \A n \in DOMAIN authorMap :
            /\ authorMap[n].titles =
                  {ExpectedTitle(articles[c[1]]) : c \in Contributions(n)}
            /\ authorMap[n].affiliations =
                  UNION {AffiliationsOf(c[2]) : c \in Contributions(n)}

C14_Witness ==
    /\ pc = "done" /\ Len(articles) = 2
    /\ DOMAIN authorMap = {"Jane Smith"}
    /\ authorMap["Jane Smith"] =
          [affiliations |-> {"MIT"},
           titles |-> {<<"g", " ", "(", "2", "0", ")">>, <<"g", " ", "(", ")">>}]

(***************************************************************************)
(* C15: every page request of searchArticles is issued at an offset that   *)
(* is a multiple of the page size and strictly below MAX_RESULTS, so at    *)
(* most ceil(MAX_RESULTS / DEFAULT_RETMAX) page requests are issued.       *)
(***************************************************************************)
C15_OffsetsUnderCap ==
    /\ \A k \in 1..Len(offsets) :
          /\ offsets[k] = (k - 1) * DEFAULT_RETMAX
          /\ offsets[k] < MAX_RESULTS
    /\ Len(offsets) <= CeilDiv(MAX_RESULTS, DEFAULT_RETMAX)
    /\ Count(trace, "call") = Len(offsets)

C15_Witness ==
    /\ MAX_RESULTS = 5 /\ DEFAULT_RETMAX = 2 /\ pc = "done"
    /\ offsets = <<0, 2, 4>> /\ Len(result) = 6

(***************************************************************************)
(* C16: if every HTTP attempt is eventually settled and every ready        *)
(* continuation is eventually run, searchArticles and fetchArticleDetails  *)
(* eventually finish, with a result or with a terminal failure.            *)
(***************************************************************************)
FairSpecService == SpecService /\ WF_vars(NextService)

C16_Terminates == <>(pc = "done" /\ outcome # "running")

C16_Witness ==
    /\ mode = "search" /\ pc = "done" /\ outcome = "returned"
    /\ OnlyFullPages /\ Len(offsets) = CeilDiv(MAX_RESULTS, DEFAULT_RETMAX)
    /\ Len(offsets) = 3 /\ Count(trace, "fail") = 2

(***************************************************************************)
(* C17: a page after the first that carries no identifier list ends the    *)
(* pagination without error: no further page is requested and the          *)
(* identifiers of the earlier pages are returned, in order.                *)
(***************************************************************************)
C17_AbsentListEndsPaging ==
    (Len(received) >= 2 /\ received[Len(received)].kind = "absent") =>
        /\ Len(offsets) = Len(received)
        /\ outcome \in {"running", "returned"}
        /\ allIds = Flatten(SubSeq(PagesReceived, 1, Len(received) - 1))
        /\ allIds # <<>>
        /\ pc \in {"await", "end", "done"}
        /\ pc = "done" => (outcome = "returned" /\ result = allIds)

C17_Witness ==
    /\ pc = "done" /\ DEFAULT_RETMAX = 2 /\ Len(received) = 3
    /\ received[3].kind = "absent" /\ result = <<1, 2, 2, 1>>

(***************************************************************************)
(* C18: after a full page the offset advances by the page size and an      *)
(* inter-page delay is waited exactly when the new offset is still under   *)
(* MAX_RESULTS; so every page request but the first directly follows one   *)
(* inter-page delay and no inter-page delay follows the last request.      *)
(***************************************************************************)
C18_InterPageDelays ==
    /\ \A k \in 1..Len(trace) :
          /\ trace[k] = "pageDelay" =>
                /\ k > 1 /\ trace[k - 1] = "ok"
                /\ k < Len(trace) => trace[k + 1] = "call"
          /\ (trace[k] = "call" /\ k > 1) => trace[k - 1] = "pageDelay"
    /\ pc = "delay" =>
          (retStart < MAX_RESULTS /\ retStart = Len(offsets) * DEFAULT_RETMAX)
    /\ (pc = "loop" /\ LastEvent = "ok") =>
          (retStart >= MAX_RESULTS /\ retStart = Len(offsets) * DEFAULT_RETMAX)
    /\ pc \in {"end", "done"} =>
          /\ LastEvent # "pageDelay"
          /\ offsets # <<>> => Count(trace, "pageDelay") = Len(offsets) - 1

C18_Witness ==
    /\ pc = "done" /\ MAX_RESULTS = 4 /\ DEFAULT_RETMAX = 2
    /\ Len(result) = 4 /\ Count(trace, "pageDelay") = 1 /\ LastEvent = "ok"

(***************************************************************************)
(* C19: the flow is sequential: at most one GET is outstanding, and the    *)
(* next attempt, page or batch is requested only after the previous GET    *)
(* has settled and, on success, its payload has been appended to the       *)
(* accumulator.                                                            *)
(***************************************************************************)
C19_Sequential ==
    /\ outstanding \in {0, 1}
    /\ outstanding = 1 <=> rpc = "waiting"
    /\ outstanding = 1 <=> LastEvent = "get"
    /\ \A k \in 1..(Len(trace) - 1) :
          trace[k] = "get" => trace[k + 1] \in {"ok", "fail"}
    /\ (pc = "await" /\ rpc # "returned") =>
          /\ mode = "search" => allIds = Flatten(PagesReceived)
          /\ mode = "fetch" => allArticles = Flatten(PagesReceived)

C19_Witness ==
    /\ mode = "fetch" /\ outstanding = 1 /\ gets = 2
    /\ Len(received) = 1 /\ Len(allArticles) = 2

(***************************************************************************)
(* C20: the retry budget is per request: every page or batch request       *)
(* starts with attempt = 0, failures of earlier requests that went on to   *)
(* succeed do not count, and a run fails with the request error exactly    *)
(* when one request has failed DefaultRetries times in a row.              *)
(***************************************************************************)
LastCall ==
    IF \E k \in 1..Len(trace) : trace[k] = "call"
      THEN CHOOSE k \in 1..Len(trace) :
              trace[k] = "call" /\ \A j \in (k + 1)..Len(trace) : trace[j] # "call"
      ELSE 0

FailsSinceCall ==
    Cardinality({k \in (LastCall + 1)..Len(trace) : trace[k] = "fail"})

C20_FreshBudget ==
    /\ LastEvent = "call" => (attempt = 0 /\ gets = 0 /\ rpc \in {"loop", "get"})
    /\ (pc = "await" /\ rpc # "idle") =>
          (attempt = FailsSinceCall /\ retries = DefaultRetries /\ gets <= retries)
    /\ FailsSinceCall = DefaultRetries <=> (rpc = "thrown" \/ outcome = "RequestError")
    /\ FailsSinceCall <= DefaultRetries

C20_Witness ==
    /\ mode = "search" /\ outcome = "returned"
    /\ Count(trace, "fail") = 4 /\ Len(offsets) = 2

====
